---- MODULE Spec2Model ----
(***************************************************************************)
(* Session construction, train/test partitioning and flattening of         *)
(* deeploglizer/common/dataloader.py, as a state machine.                   *)
(*                                                                         *)
(* One call of a loader is one behaviour: Init fixes the arguments and the *)
(* input table, each action is one block of the loader's body, and pc      *)
(* names the block that runs next.  Python's 0-based indices are kept as   *)
(* values (total_indice = <<0, 1, ..>>); a TLA+ sequence is read at i + 1. *)
(* Ratios are numerators over RatioDen, so train_ratio * N is exact.       *)
(*                                                                         *)
(* Spec        one call of load_BGL, load_HDFS, load_OpenStack or          *)
(*             load_sessions, over every argument of the ratio grid        *)
(* SpecFilter  load_BGL with filter_normal on, logs of several templates   *)
(* SpecBuild   load_HDFS / load_OpenStack on logs that exercise the keys   *)
(* SpecRerun   a call and its repetition under the same seed               *)
(* SpecDataset construction and use of one log_dataset                     *)
(***************************************************************************)
EXTENDS Integers, Sequences, FiniteSets, TLC

VARIABLES
    loader,            \* the function called
    pc,                \* block of the function that runs next
    err,               \* exception that ended the call ("" when none)
    args,              \* keyword arguments, train_ratio rebound at its default
    struct_log,        \* rows of the structured log, in file order
    label_data,        \* rows of the label file: key -> token
    templates,         \* load_BGL: EventTemplate column
    labels,            \* load_BGL: Label column mapped to 0/1
    total_indice,      \* load_BGL: row indices, possibly shuffled
    idx_train,         \* load_BGL: idx_train / others: session_idx_train
    idx_test,          \* load_BGL: idx_test  / others: session_idx_test
    row,               \* number of rows of struct_log consumed by the build loop
    session_dict,      \* OrderedDict as a sequence of [id, templates, label]
    session_idx,       \* load_HDFS / load_OpenStack: positions, possibly shuffled
    session_train,     \* returned training collection
    session_test,      \* returned test collection
    rng,               \* draws made by this call: [perm, coins]
    replay,            \* draws a re-run under the same seed repeats
    first_run,         \* what the first run under the seed returned
    flatten_data_list, \* log_dataset: the flat samples
    session_pos,       \* log_dataset: sessions enumerated so far
    item               \* log_dataset: result of the last __len__ / __getitem__

vars == << loader, pc, err, args, struct_log, label_data, templates, labels,
           total_indice, idx_train, idx_test, row, session_dict, session_idx,
           session_train, session_test, rng, replay, first_run,
           flatten_data_list, session_pos, item >>

----------------------------------------------------------------------------
(* Bounds of the model.                                                    *)

MaxRows == 3
MaxRecords == 2
MaxSessions == 2
MaxWindows == 5
RatioDen == 2

----------------------------------------------------------------------------
(* Generic helpers: Python built-ins the loaders rely on.                  *)

Min(a, b) == IF a <= b THEN a ELSE b
Max(a, b) == IF a >= b THEN a ELSE b

\* int(x) of a float x = n / d truncates toward zero.
PyInt(n, d) == IF n >= 0 THEN n \div d ELSE -((-n) \div d)

\* Normalisation of one slice bound against a length: negative bounds count
\* from the end, both are clamped to [0, len].
PySliceBound(i, len) == IF i < 0 THEN Max(i + len, 0) ELSE Min(i, len)

\* s[start:stop]
PySlice(s, start, stop) ==
    LET lo == PySliceBound(start, Len(s))
        hi == PySliceBound(stop, Len(s))
    IN  IF lo >= hi THEN << >> ELSE SubSeq(s, lo + 1, hi)

\* s[0:n]
PyHead(s, n) == PySlice(s, 0, n)

\* s[-n:]  (the stop bound is absent: the end of s)
PyTail(s, n) == PySlice(s, -n, Len(s))

RECURSIVE SeqSum(_)
SeqSum(s) == IF s = << >> THEN 0 ELSE Head(s) + SeqSum(Tail(s))

Range(s) == { s[i] : i \in 1..Len(s) }

\* list(range(n))
PyRange(n) == [ i \in 1..n |-> i - 1 ]

\* Every order of the elements of a finite set.
Orders(S) ==
    { f \in [ 1..Cardinality(S) -> S ] :
        \A i, j \in 1..Cardinality(S) : i # j => f[i] # f[j] }

\* Optional values: << >> is None, << v >> is v.
None == << >>
Some(v) == << v >>

----------------------------------------------------------------------------
(* Input domains.                                                          *)

\* A template is a short string, kept as its characters.
Templates == { << "a" >>, << "b" >> }

\* Label column of the BGL log: "-" marks a normal line.
BGLTokens == { "-", "FATAL" }

BGLRows == [ EventTemplate : Templates, Label : BGLTokens ]

Tables(Rows) == UNION { [ 1..n -> Rows ] : n \in 0..MaxRows }

\* Ratio numerators over RatioDen: the grid from -1/RatioDen to 1 + 1/RatioDen.
RatioNums == (-1)..(RatioDen + 1)

\* train_anomaly_ratio: 0, one value strictly inside (0, 1), and 1.
AnomalyNums == { 0, 1, RatioDen }

TrainRatios == { None } \cup { Some(k) : k \in RatioNums }

\* Keyword arguments of a loader.  train_ratio_given keeps the value passed,
\* train_ratio is the parameter the body rebinds.  test_ratio is always passed.
ArgsOf(train_ratios, test_ratios, anomaly_ratios, filters) ==
    { [ train_ratio_given |-> tr, train_ratio |-> tr, test_ratio |-> te,
        train_anomaly_ratio |-> ar, random_partition |-> rp, filter_normal |-> fn,
        feature_type |-> "" ] :
        tr \in train_ratios, te \in test_ratios, ar \in anomaly_ratios,
        rp \in BOOLEAN, fn \in filters }

Args == ArgsOf(TrainRatios, RatioNums, AnomalyNums, BOOLEAN)

\* load_HDFS and load_OpenStack take no filter_normal.
SessionArgs == ArgsOf(TrainRatios, RatioNums, AnomalyNums, { FALSE })

NoArgs == CHOOSE a \in ArgsOf({ None }, { 0 }, { 0 }, { FALSE }) : ~a.random_partition

\* Label column of the label file.
LabelTokens == { "Normal", "Anomaly" }

\* session_train.pkl / session_test.pkl as load_sessions reads them: sessions
\* keyed by position, the label an int (list FALSE, v its one value) or a
\* list of window labels (list TRUE).
PickledLabels ==
    { [ list |-> FALSE, v |-> << 0 >> ], [ list |-> FALSE, v |-> << 1 >> ],
      [ list |-> TRUE, v |-> << 0, 0 >> ], [ list |-> TRUE, v |-> << 0, 1 >> ] }

Pickles ==
    UNION { { [ i \in 1..n |-> [ id |-> i, templates |-> << >>, label |-> l[i] ] ] :
                l \in [ 1..n -> PickledLabels ] } : n \in 0..MaxRows }

----------------------------------------------------------------------------
(* deeploglizer.common.utils.decision and the shared random source.        *)

NoDraws == [ perm |-> << >>, coins |-> << >> ]

\* The outcomes k successive calls decision(p) can return, p = num / RatioDen:
\* a call returns whether a uniform draw from [0, 1) is below p.  Draws a
\* re-run repeats are those of the first run, as far as it made any.
Decisions(num, k) ==
    { c \in [ 1..k -> BOOLEAN ] :
        \A i \in 1..k :
            /\ num <= 0 => ~c[i]
            /\ num >= RatioDen => c[i]
            /\ i <= Len(replay.coins) => c[i] = replay.coins[i] }

\* np.random.shuffle(s): any order of s; a re-run repeats the first run's
\* permutation of positions.
Shuffles(s) ==
    { p \in Orders(Range(s)) :
        Len(replay.perm) = Len(s) => p = [ i \in 1..Len(s) |-> s[replay.perm[i] + 1] ] }

\* KeepTrain without the call of decision: every item of label 0 or 1 stays.
KeepTrainNoCoin(window, lab, coins) ==
    SelectSeq(window, LAMBDA x : \E i \in 1..Len(window) : window[i] = x /\ lab[i] \in { 0, 1 })

\* [x for x in window if label(x) == 0 or (label(x) == 1 and decision(p))]
\* lab[i] is the label of window[i]; coins are the results of the calls made,
\* one per item of label 1, in order.
RECURSIVE KeepTrain(_, _, _)
KeepTrain(window, lab, coins) ==
    IF window = << >> THEN << >>
    ELSE IF Head(lab) = 0
         THEN << Head(window) >> \o KeepTrain(Tail(window), Tail(lab), coins)
         ELSE IF Head(lab) = 1
              THEN (IF Head(coins) THEN << Head(window) >> ELSE << >>)
                       \o KeepTrain(Tail(window), Tail(lab), Tail(coins))
              ELSE KeepTrain(Tail(window), Tail(lab), coins)

\* Number of calls of decision the comprehension makes.
Calls(lab) == Cardinality({ i \in 1..Len(lab) : lab[i] = 1 })

----------------------------------------------------------------------------
(* load_BGL                                                                *)

\* struct_log["Label"].map(lambda x: x != "-").astype(int)
BGLLabel(tok) == IF tok # "-" THEN 1 ELSE 0

\* a[idx] for a list of 0-based indices
Take(a, idx) == [ i \in 1..Len(idx) |-> a[idx[i] + 1] ]

BGL_Read ==
    /\ loader = "BGL" /\ pc = "read"
    /\ templates' = [ i \in 1..Len(struct_log) |-> struct_log[i].EventTemplate ]
    /\ labels' = [ i \in 1..Len(struct_log) |-> BGLLabel(struct_log[i].Label) ]
    /\ total_indice' = PyRange(Len(struct_log))
    /\ pc' = "shuffle"
    /\ UNCHANGED << loader, err, args, struct_log, label_data, idx_train,
                    idx_test, row, session_dict, session_idx, session_train,
                    session_test, rng, replay, first_run, flatten_data_list,
                    session_pos, item >>

BGL_Shuffle ==
    /\ loader = "BGL" /\ pc = "shuffle"
    /\ IF args.random_partition
       THEN \E p \in Shuffles(total_indice) :
                /\ total_indice' = p
                /\ rng' = [ rng EXCEPT !.perm = p ]
       ELSE UNCHANGED << total_indice, rng >>
    /\ pc' = "ratio"
    /\ UNCHANGED << loader, err, args, struct_log, label_data, templates,
                    labels, idx_train, idx_test, row, session_dict,
                    session_idx, session_train, session_test, replay,
                    first_run, flatten_data_list, session_pos, item >>

\* train_ratio = 1 - test_ratio when it is None
DefaultTrainRatio(a) ==
    IF a.train_ratio = None THEN RatioDen - a.test_ratio ELSE a.train_ratio[1]

\* assert train_ratio + test_ratio <= 1
BGLRatiosAccepted(train, test) == train + test <= RatioDen

BGL_Ratio ==
    /\ loader = "BGL" /\ pc = "ratio"
    /\ LET train == DefaultTrainRatio(args)
       IN  /\ args' = [ args EXCEPT !.train_ratio = Some(train) ]
           /\ IF BGLRatiosAccepted(train, args.test_ratio)
              THEN pc' = "split" /\ err' = err
              ELSE pc' = "raised" /\ err' = "AssertionError"
    /\ UNCHANGED << loader, struct_log, label_data, templates, labels,
                    total_indice, idx_train, idx_test, row, session_dict,
                    session_idx, session_train, session_test, rng, replay,
                    first_run, flatten_data_list, session_pos, item >>

\* int(ratio * len(x))
Lines(num, len) == PyInt(num * len, RatioDen)

\* x[0:train_lines]
TrainWindow(x, train_lines) == PyHead(x, train_lines)

\* x[-test_lines:]
TestWindow(x, test_lines) == PyTail(x, test_lines)

BGL_Split ==
    /\ loader = "BGL" /\ pc = "split"
    /\ LET train_lines == Lines(args.train_ratio[1], Len(total_indice))
           test_lines == Lines(args.test_ratio, Len(total_indice))
       IN  /\ idx_train' = TrainWindow(total_indice, train_lines)
           /\ idx_test' = TestWindow(total_indice, test_lines)
    /\ pc' = "downsample"
    /\ UNCHANGED << loader, err, args, struct_log, label_data, templates,
                    labels, total_indice, row, session_dict, session_idx,
                    session_train, session_test, rng, replay, first_run,
                    flatten_data_list, session_pos, item >>

BGL_Downsample ==
    /\ loader = "BGL" /\ pc = "downsample"
    /\ LET lab == Take(labels, idx_train)
       IN  \E c \in Decisions(args.train_anomaly_ratio, Calls(lab)) :
               /\ idx_train' = KeepTrain(idx_train, lab, c)
               /\ rng' = [ rng EXCEPT !.coins = c ]
    /\ pc' = "filter"
    /\ UNCHANGED << loader, err, args, struct_log, label_data, templates,
                    labels, total_indice, idx_test, row, session_dict,
                    session_idx, session_train, session_test, replay,
                    first_run, flatten_data_list, session_pos, item >>

\* FilterUnseen without the test of the label.
FilterUnseenAnyLabel(test, train) ==
    LET seen_normal == Range(Take(templates, train))
    IN  SelectSeq(test, LAMBDA idx : templates[idx + 1] \in seen_normal)

\* [idx for idx in idx_test
\*      if not (labels[idx] == 0 and templates[idx] not in seen_normal)]
FilterUnseen(test, train) ==
    LET seen_normal == Range(Take(templates, train))
    IN  SelectSeq(test,
            LAMBDA idx : ~(labels[idx + 1] = 0 /\ templates[idx + 1] \notin seen_normal))

BGL_Filter ==
    /\ loader = "BGL" /\ pc = "filter"
    /\ idx_test' = IF args.filter_normal
                   THEN FilterUnseen(idx_test, idx_train)
                   ELSE idx_test
    /\ pc' = "stats"
    /\ UNCHANGED << loader, err, args, struct_log, label_data, templates,
                    labels, total_indice, idx_train, row, session_dict,
                    session_idx, session_train, session_test, rng, replay,
                    first_run, flatten_data_list, session_pos, item >>

\* 100 * sum(x) / len(x) raises ZeroDivisionError on an empty x
PercentRaises(x) == Len(x) = 0

\* {"all": {"templates": templates[idx].tolist(), "label": labels[idx]}}
BGLSession(idx) ==
    << [ id |-> "all", templates |-> Take(templates, idx), label |-> Take(labels, idx) ] >>

BGL_Stats ==
    /\ loader = "BGL" /\ pc = "stats"
    /\ session_train' = BGLSession(idx_train)
    /\ session_test' = BGLSession(idx_test)
    /\ IF PercentRaises(Take(labels, idx_train)) \/ PercentRaises(Take(labels, idx_test))
       THEN pc' = "raised" /\ err' = "ZeroDivisionError"
       ELSE pc' = "returned" /\ err' = err
    /\ UNCHANGED << loader, args, struct_log, label_data, templates, labels,
                    total_indice, idx_train, idx_test, row, session_dict,
                    session_idx, rng, replay, first_run, flatten_data_list,
                    session_pos, item >>

----------------------------------------------------------------------------
(* load_HDFS and load_OpenStack: session construction                      *)

\* A word of a Content field: the text "blk_<n>" or any other word.
Blk(n) == [ kind |-> "blk", n |-> n ]
Word == [ kind |-> "word", n |-> 0 ]

\* re.findall(r"(blk_-?\d+)", content): the matches, left to right
FindBlkIds(content) == SelectSeq(content, LAMBDA w : w.kind = "blk")

\* session_dict[k]["templates"].append(t), with a fresh defaultdict(list)
\* under k when k is a new key: a new key goes last, an old one keeps its place.
HasKey(sd, k) == \E i \in 1..Len(sd) : sd[i].id = k

\* The append that moves a key it already holds to the end of the collection.
AppendTemplateLast(sd, k, t) ==
    IF HasKey(sd, k)
    THEN LET old == CHOOSE i \in 1..Len(sd) : sd[i].id = k
         IN  Append(SelectSeq(sd, LAMBDA s : s.id # k),
                    [ sd[old] EXCEPT !.templates = Append(@, t) ])
    ELSE Append(sd, [ id |-> k, templates |-> << t >>, label |-> None ])

AppendTemplate(sd, k, t) ==
    IF HasKey(sd, k)
    THEN [ i \in 1..Len(sd) |->
             IF sd[i].id = k
             THEN [ sd[i] EXCEPT !.templates = Append(@, t) ]
             ELSE sd[i] ]
    ELSE Append(sd, [ id |-> k, templates |-> << t >>, label |-> None ])

\* for blk_Id in ids: append t under blk_Id
RECURSIVE AppendEach(_, _, _)
AppendEach(sd, ids, t) ==
    IF ids = << >> THEN sd
    ELSE AppendEach(AppendTemplate(sd, Head(ids), t), Tail(ids), t)

\* The loop run over blkId_list itself, repeats included.
ListIteration(blkId_list) == { blkId_list }

\* Orders in which "for blk_Id in blkId_set" can visit set(blkId_list): the
\* order of a set of strings follows their hashes, which the interpreter
\* salts per process.
SetIterations(blkId_list) == Orders(Range(blkId_list))

HDFS_ReadRow ==
    /\ loader = "HDFS" /\ pc = "build" /\ row < Len(struct_log)
    /\ LET r == struct_log[row + 1]
           blkId_list == FindBlkIds(r.Content)
       IN  \E visit \in SetIterations(blkId_list) :
               session_dict' = AppendEach(session_dict, visit, r.EventTemplate)
    /\ row' = row + 1
    /\ UNCHANGED << loader, pc, err, args, struct_log, label_data, templates,
                    labels, total_indice, idx_train, idx_test, session_idx,
                    session_train, session_test, rng, replay, first_run,
                    flatten_data_list, session_pos, item >>

\* Bucket with second 30 itself sent to the upper half.
BucketStrict(ts) ==
    IF ts.second < 30
    THEN [ ts EXCEPT !.second = 0 ]
    ELSE [ ts EXCEPT !.second = 30 ]

\* The bucket of a timestamp: second 0 up to second 30, second 30 above.
Bucket(ts) ==
    IF ts.second <= 30
    THEN [ ts EXCEPT !.second = 0 ]
    ELSE [ ts EXCEPT !.second = 30 ]

\* t.replace('[', '')
StripBracket(t) == SelectSeq(t, LAMBDA ch : ch # "[")

OpenStack_ReadRow ==
    /\ loader = "OpenStack" /\ pc = "build" /\ row < Len(struct_log)
    /\ LET r == struct_log[row + 1]
           datetime_string == Bucket(r.DateTime)
       IN  session_dict' =
               AppendTemplate(session_dict, datetime_string, StripBracket(r.EventTemplate))
    /\ row' = row + 1
    /\ UNCHANGED << loader, pc, err, args, struct_log, label_data, templates,
                    labels, total_indice, idx_train, idx_test, session_idx,
                    session_train, session_test, rng, replay, first_run,
                    flatten_data_list, session_pos, item >>

----------------------------------------------------------------------------
(* load_HDFS and load_OpenStack: labels and partitioning (the two          *)
(* functions share this text)                                              *)

SessionLoader == loader \in { "HDFS", "OpenStack" }

\* label_data["Label"].map(lambda x: int(x == "Anomaly")), as a dict
LabelOfToken(tok) == IF tok = "Anomaly" THEN 1 ELSE 0

HasLabel(k) == k \in DOMAIN label_data

label_data_dict(k) == LabelOfToken(label_data[k])

\* Position of the first session whose key the label file lacks, 0 if none.
FirstMissing(sd) ==
    LET miss == { i \in 1..Len(sd) : ~HasLabel(sd[i].id) }
    IN  IF miss = { } THEN 0 ELSE CHOOSE i \in miss : \A j \in miss : i <= j

\* for k in session_dict.keys(): session_dict[k]["label"] = label_data_dict[k]
\* The loop stops at the first KeyError; the sessions before it are labelled.
AssignLabels(sd) ==
    LET stop == FirstMissing(sd)
    IN  [ i \in 1..Len(sd) |->
            IF stop = 0 \/ i < stop
            THEN [ sd[i] EXCEPT !.label = Some(label_data_dict(sd[i].id)) ]
            ELSE sd[i] ]

\* The label loop reading label_data_dict.get(k, 0): a key the label file
\* lacks reads 0 and the call goes on.
Session_LabelDefault ==
    /\ SessionLoader /\ pc = "build" /\ row = Len(struct_log)
    /\ session_dict' =
           [ i \in 1..Len(session_dict) |->
               [ session_dict[i] EXCEPT !.label =
                   Some(IF HasLabel(session_dict[i].id)
                        THEN label_data_dict(session_dict[i].id)
                        ELSE 0) ] ]
    /\ pc' = "shuffle" /\ err' = err
    /\ UNCHANGED << loader, args, struct_log, label_data, templates, labels,
                    total_indice, idx_train, idx_test, row, session_idx,
                    session_train, session_test, rng, replay, first_run,
                    flatten_data_list, session_pos, item >>

Session_Label ==
    /\ SessionLoader /\ pc = "build" /\ row = Len(struct_log)
    /\ session_dict' = AssignLabels(session_dict)
    /\ IF FirstMissing(session_dict) = 0
       THEN pc' = "shuffle" /\ err' = err
       ELSE pc' = "raised" /\ err' = "KeyError"
    /\ UNCHANGED << loader, args, struct_log, label_data, templates, labels,
                    total_indice, idx_train, idx_test, row, session_idx,
                    session_train, session_test, rng, replay, first_run,
                    flatten_data_list, session_pos, item >>

Session_Shuffle ==
    /\ SessionLoader /\ pc = "shuffle"
    /\ IF args.random_partition
       THEN \E p \in Shuffles(PyRange(Len(session_dict))) :
                /\ session_idx' = p
                /\ rng' = [ rng EXCEPT !.perm = p ]
       ELSE /\ session_idx' = PyRange(Len(session_dict))
            /\ rng' = rng
    /\ pc' = "split"
    /\ UNCHANGED << loader, err, args, struct_log, label_data, templates,
                    labels, total_indice, idx_train, idx_test, row,
                    session_dict, session_train, session_test, replay,
                    first_run, flatten_data_list, session_pos, item >>

Session_Split ==
    /\ SessionLoader /\ pc = "split"
    /\ LET train == DefaultTrainRatio(args)
           train_lines == Lines(train, Len(session_idx))
           test_lines == Lines(args.test_ratio, Len(session_idx))
       IN  /\ args' = [ args EXCEPT !.train_ratio = Some(train) ]
           /\ idx_train' = TrainWindow(session_idx, train_lines)
           /\ idx_test' = TestWindow(session_idx, test_lines)
    /\ pc' = "downsample"
    /\ UNCHANGED << loader, err, struct_log, label_data, templates, labels,
                    total_indice, row, session_dict, session_idx,
                    session_train, session_test, rng, replay, first_run,
                    flatten_data_list, session_pos, item >>

\* The label of every session of a list, as the integers the loader compares.
SessionLabels(ss) == [ i \in 1..Len(ss) |-> ss[i].label[1] ]

Session_Downsample ==
    /\ SessionLoader /\ pc = "downsample"
    /\ LET window == Take(session_dict, idx_train)
           lab == SessionLabels(window)
       IN  \E c \in Decisions(args.train_anomaly_ratio, Calls(lab)) :
               /\ session_train' = KeepTrain(window, lab, c)
               /\ rng' = [ rng EXCEPT !.coins = c ]
    /\ session_test' = Take(session_dict, idx_test)
    /\ pc' = "stats"
    /\ UNCHANGED << loader, err, args, struct_log, label_data, templates,
                    labels, total_indice, idx_train, idx_test, row,
                    session_dict, session_idx, replay, first_run,
                    flatten_data_list, session_pos, item >>

Session_Stats ==
    /\ SessionLoader /\ pc = "stats"
    /\ IF PercentRaises(SessionLabels(session_train))
            \/ PercentRaises(SessionLabels(session_test))
       THEN pc' = "raised" /\ err' = "ZeroDivisionError"
       ELSE pc' = "returned" /\ err' = err
    /\ UNCHANGED << loader, args, struct_log, label_data, templates, labels,
                    total_indice, idx_train, idx_test, row, session_dict,
                    session_idx, session_train, session_test, rng, replay,
                    first_run, flatten_data_list, session_pos, item >>

----------------------------------------------------------------------------
(* load_sessions                                                           *)

\* v["label"] if not isinstance(v["label"], list) else int(sum(v["label"]) > 0)
\* A pickled label is an int or a list of window labels.
SessionLabel(label) ==
    IF label.list
    THEN (IF SeqSum(label.v) > 0 THEN 1 ELSE 0)
    ELSE label.v[1]

LabelList(ss) == [ i \in 1..Len(ss) |-> SessionLabel(ss[i].label) ]

LoadSessions ==
    /\ loader = "sessions" /\ pc = "stats"
    /\ labels' = << LabelList(session_train), LabelList(session_test) >>
    /\ IF PercentRaises(LabelList(session_train)) \/ PercentRaises(LabelList(session_test))
       THEN pc' = "raised" /\ err' = "ZeroDivisionError"
       ELSE pc' = "returned" /\ err' = err
    /\ UNCHANGED << loader, args, struct_log, label_data, templates,
                    total_indice, idx_train, idx_test, row, session_dict,
                    session_idx, session_train, session_test, rng, replay,
                    first_run, flatten_data_list, session_pos, item >>

----------------------------------------------------------------------------
(* log_dataset                                                             *)

\* Samples with the enumeration started at 1.
SamplesFromOne(session_idx_, data_dict, feature_type) ==
    [ w \in 1..Len(data_dict.window_labels) |->
        [ session_idx |-> session_idx_ + 1,
          features |-> data_dict.features[feature_type][w],
          window_labels |-> data_dict.window_labels[w],
          window_anomalies |-> data_dict.window_anomalies[w] ] ]

\* The samples of one session, enumerated at session_idx: one per entry of
\* window_labels, in window order.
Samples(session_idx_, data_dict, feature_type) ==
    LET features == data_dict.features[feature_type]
        window_labels == data_dict.window_labels
        window_anomalies == data_dict.window_anomalies
    IN  [ w \in 1..Len(window_labels) |->
            [ session_idx |-> session_idx_,
              features |-> features[w],
              window_labels |-> window_labels[w],
              window_anomalies |-> window_anomalies[w] ] ]

\* One pass of the outer loop of __init__.
Dataset_Session ==
    /\ loader = "log_dataset" /\ pc = "flatten" /\ session_pos < Len(session_dict)
    /\ flatten_data_list' =
           flatten_data_list
               \o Samples(session_pos, session_dict[session_pos + 1], args.feature_type)
    /\ session_pos' = session_pos + 1
    /\ UNCHANGED << loader, pc, err, args, struct_log, label_data, templates,
                    labels, total_indice, idx_train, idx_test, row,
                    session_dict, session_idx, session_train, session_test,
                    rng, replay, first_run, item >>

\* self.flatten_data_list = flatten_data_list
Dataset_Built ==
    /\ loader = "log_dataset" /\ pc = "flatten" /\ session_pos = Len(session_dict)
    /\ pc' = "ready"
    /\ UNCHANGED << loader, err, args, struct_log, label_data, templates,
                    labels, total_indice, idx_train, idx_test, row,
                    session_dict, session_idx, session_train, session_test,
                    rng, replay, first_run, flatten_data_list, session_pos,
                    item >>

\* No call of __len__ or __getitem__ was made yet.
NoItem == [ op |-> "none", idx |-> 0, value |-> None ]

\* __len__
Dataset_Len ==
    /\ loader = "log_dataset" /\ pc = "ready"
    /\ item' = [ op |-> "len", idx |-> 0, value |-> Some(Len(flatten_data_list)) ]
    /\ UNCHANGED << loader, pc, err, args, struct_log, label_data, templates,
                    labels, total_indice, idx_train, idx_test, row,
                    session_dict, session_idx, session_train, session_test,
                    rng, replay, first_run, flatten_data_list, session_pos >>

\* l[idx] of a list: a negative idx counts from the end; None stands for the
\* IndexError of an idx outside [-len, len).
PyIndex(l, idx) ==
    IF 0 <= idx /\ idx < Len(l) THEN Some(l[idx + 1])
    ELSE IF idx < 0 /\ -idx <= Len(l) THEN Some(l[Len(l) + idx + 1])
    ELSE None

\* __getitem__
Dataset_GetItem ==
    /\ loader = "log_dataset" /\ pc = "ready"
    /\ \E idx \in (-(Len(flatten_data_list) + 1))..Len(flatten_data_list) :
           item' = [ op |-> "getitem", idx |-> idx, value |-> PyIndex(flatten_data_list, idx) ]
    /\ UNCHANGED << loader, pc, err, args, struct_log, label_data, templates,
                    labels, total_indice, idx_train, idx_test, row,
                    session_dict, session_idx, session_train, session_test,
                    rng, replay, first_run, flatten_data_list, session_pos >>

----------------------------------------------------------------------------
(* A second run of the same call under the same seed.                      *)

FirstPc == IF loader = "BGL" THEN "read" ELSE "build"

Outcome ==
    [ pc |-> pc, err |-> err, session_dict |-> session_dict,
      idx_train |-> idx_train, idx_test |-> idx_test,
      session_train |-> session_train, session_test |-> session_test ]

\* The call is made again on the same files with the same arguments, after
\* the caller seeded the random source as before the first run.
Rerun ==
    /\ loader \in { "BGL", "HDFS", "OpenStack" }
    /\ pc \in { "returned", "raised" }
    /\ first_run = None
    /\ first_run' = Some(Outcome)
    /\ replay' = rng
    /\ rng' = NoDraws
    /\ pc' = FirstPc
    /\ err' = ""
    /\ args' = [ args EXCEPT !.train_ratio = args.train_ratio_given ]
    /\ templates' = << >> /\ labels' = << >> /\ total_indice' = << >>
    /\ idx_train' = << >> /\ idx_test' = << >>
    /\ row' = 0 /\ session_dict' = << >> /\ session_idx' = << >>
    /\ session_train' = << >> /\ session_test' = << >>
    /\ UNCHANGED << loader, struct_log, label_data, flatten_data_list,
                    session_pos, item >>

----------------------------------------------------------------------------
(* Initial states: the call about to be made.                              *)

\* What every call starts from: no local is bound yet.
Quiet ==
    /\ err = ""
    /\ templates = << >> /\ labels = << >> /\ total_indice = << >>
    /\ idx_train = << >> /\ idx_test = << >>
    /\ row = 0 /\ session_idx = << >>
    /\ rng = NoDraws /\ replay = NoDraws /\ first_run = None
    /\ flatten_data_list = << >> /\ session_pos = 0 /\ item = NoItem

\* load_BGL on a log of one template.
InitBGL ==
    /\ loader = "BGL" /\ pc = "read"
    /\ args \in Args
    /\ struct_log \in Tables([ EventTemplate : { << "a" >> }, Label : BGLTokens ])
    /\ label_data = << >>
    /\ session_dict = << >> /\ session_train = << >> /\ session_test = << >>
    /\ Quiet

\* load_BGL with filter_normal on, on a log of several templates.
InitFilter ==
    /\ loader = "BGL" /\ pc = "read"
    /\ args \in ArgsOf(TrainRatios, RatioNums, AnomalyNums, { TRUE })
    /\ struct_log \in Tables(BGLRows)
    /\ label_data = << >>
    /\ session_dict = << >> /\ session_train = << >> /\ session_test = << >>
    /\ Quiet

\* load_HDFS on a log whose i-th line names block i alone.
InitHDFS ==
    /\ loader = "HDFS" /\ pc = "build"
    /\ args \in SessionArgs
    /\ \E n \in 0..MaxRows :
           /\ struct_log = [ i \in 1..n |->
                               [ Content |-> << Word, Blk(i) >>, EventTemplate |-> << "a" >> ] ]
           /\ label_data \in [ { Blk(i) : i \in 1..n } -> LabelTokens ]
    /\ session_dict = << >> /\ session_train = << >> /\ session_test = << >>
    /\ Quiet

\* load_OpenStack on a log whose i-th line falls in minute i.
InitOpenStack ==
    /\ loader = "OpenStack" /\ pc = "build"
    /\ args \in SessionArgs
    /\ \E n \in 0..MaxRows :
           /\ struct_log = [ i \in 1..n |->
                               [ DateTime |-> [ minute |-> i, second |-> 0 ],
                                 EventTemplate |-> << "a" >> ] ]
           /\ label_data \in [ { [ minute |-> i, second |-> 0 ] : i \in 1..n } -> LabelTokens ]
    /\ session_dict = << >> /\ session_train = << >> /\ session_test = << >>
    /\ Quiet

InitSessions ==
    /\ loader = "sessions" /\ pc = "stats"
    /\ args = NoArgs
    /\ struct_log = << >> /\ label_data = << >> /\ session_dict = << >>
    /\ session_train \in Pickles
    /\ session_test \in Pickles
    /\ Quiet

\* Logs for session construction: lines naming no, one or several blocks,
\* with repeats; timestamps on both sides of second 30 in two minutes.
Contents ==
    { << Word >>, << Blk(1) >>, << Word, Blk(-2) >>, << Blk(1), Blk(1) >>,
      << Blk(1), Word, Blk(-2) >>, << Blk(-2), Blk(1), Blk(-2) >> }

HDFSRows == [ Content : Contents, EventTemplate : Templates ]

BlkIds == { Blk(1), Blk(-2) }

DateTimes ==
    { [ minute |-> 0, second |-> 0 ], [ minute |-> 0, second |-> 30 ],
      [ minute |-> 0, second |-> 31 ], [ minute |-> 1, second |-> 30 ],
      [ minute |-> 1, second |-> 59 ] }

OpenStackRows == [ DateTime : DateTimes, EventTemplate : { << "[", "a", "]" >>, << "b" >> } ]

Buckets == { Bucket(ts) : ts \in DateTimes }

\* Label files: any table over some of the keys.
LabelFiles(keys) == UNION { [ have -> LabelTokens ] : have \in SUBSET keys }

Logs(Rows) == UNION { [ 1..n -> Rows ] : n \in 0..MaxRecords }

\* The call the demos make: test_ratio passed, train_ratio left to its default.
BuildArgs == ArgsOf({ None }, { 1 }, { 1, RatioDen }, { FALSE })

InitBuild ==
    /\ pc = "build"
    /\ args \in BuildArgs
    /\ \/ /\ loader = "HDFS"
          /\ struct_log \in Logs(HDFSRows)
          /\ label_data \in LabelFiles(BlkIds)
       \/ /\ loader = "OpenStack"
          /\ struct_log \in Logs(OpenStackRows)
          /\ label_data \in LabelFiles(Buckets)
    /\ session_dict = << >> /\ session_train = << >> /\ session_test = << >>
    /\ Quiet

InitRerun ==
    \/ InitBuild
    \/ /\ InitBGL
       /\ args.train_ratio = None
       /\ args.random_partition

\* Collections log_dataset is built from: every window carries its features
\* under both views, its label and its anomaly flag.
WindowKinds ==
    { [ semantics |-> "s0", sequentials |-> "q0", label |-> 0, anomaly |-> 1 ],
      [ semantics |-> "s1", sequentials |-> "q1", label |-> 1, anomaly |-> 0 ] }

\* The windows of a whole collection, in flat order.
WindowLists == UNION { [ 1..n -> WindowKinds ] : n \in 0..MaxWindows }

DataDict(k, ws) ==
    [ id |-> << "session", k >>,
      features |-> [ semantics |-> [ w \in 1..Len(ws) |-> ws[w].semantics ],
                     sequentials |-> [ w \in 1..Len(ws) |-> ws[w].sequentials ] ],
      window_labels |-> [ w \in 1..Len(ws) |-> ws[w].label ],
      window_anomalies |-> [ w \in 1..Len(ws) |-> ws[w].anomaly ] ]

\* A collection of n sessions: a window list cut in n parts, empty parts
\* (sessions without windows) included.
Cuts(n, len) ==
    { c \in [ 0..n -> 0..len ] :
        /\ c[0] = 0 /\ c[n] = len
        /\ \A k \in 1..n : c[k - 1] <= c[k] }

InitDataset ==
    /\ loader = "log_dataset" /\ pc = "flatten"
    /\ \E ft \in { "semantics", "sequentials" } :
           args = [ NoArgs EXCEPT !.feature_type = ft ]
    /\ \E n \in 0..MaxSessions :
           \E ws \in WindowLists :
               \E c \in Cuts(n, Len(ws)) :
                   session_dict =
                       [ k \in 1..n |-> DataDict(k, SubSeq(ws, c[k - 1] + 1, c[k])) ]
    /\ struct_log = << >> /\ label_data = << >>
    /\ session_train = << >> /\ session_test = << >>
    /\ Quiet

Init == InitBGL \/ InitHDFS \/ InitOpenStack \/ InitSessions

----------------------------------------------------------------------------
(* Specifications.                                                         *)

BGL_Next ==
    \/ BGL_Read
    \/ BGL_Shuffle
    \/ BGL_Ratio
    \/ BGL_Split
    \/ BGL_Downsample
    \/ BGL_Filter
    \/ BGL_Stats

Session_Next ==
    \/ HDFS_ReadRow
    \/ OpenStack_ReadRow
    \/ Session_Label
    \/ Session_Shuffle
    \/ Session_Split
    \/ Session_Downsample
    \/ Session_Stats

Next == BGL_Next \/ Session_Next \/ LoadSessions

\* One call of load_BGL, load_HDFS, load_OpenStack or load_sessions.
Spec == Init /\ [][Next]_vars

\* One call of load_BGL with the unseen-template filter on.
SpecFilter == InitFilter /\ [][BGL_Next]_vars

\* One call of load_HDFS or load_OpenStack on logs that exercise the keys.
SpecBuild == InitBuild /\ [][Session_Next]_vars

\* A call and its repetition under the same seed.
SpecRerun == InitRerun /\ [][BGL_Next \/ Session_Next \/ Rerun]_vars

Dataset_Next ==
    \/ Dataset_Session
    \/ Dataset_Built
    \/ Dataset_Len
    \/ Dataset_GetItem

\* Construction and use of one log_dataset.
SpecDataset == InitDataset /\ [][Dataset_Next]_vars

----------------------------------------------------------------------------
(* Vocabulary of the properties.                                           *)

PartitioningLoader == loader \in { "BGL", "HDFS", "OpenStack" }

\* Number of items partitioned: rows for load_BGL, sessions for the others.
Items == IF loader = "BGL" THEN Len(struct_log) ELSE Len(session_dict)

\* The items in the order they are split in.
ItemOrder == IF loader = "BGL" THEN total_indice ELSE session_idx

\* The items of a returned collection: row indices for load_BGL (the rows of
\* its one session "all"), session ids for the others.
TrainItems == IF loader = "BGL" THEN idx_train ELSE [ i \in 1..Len(session_train) |-> session_train[i].id ]
TestItems == IF loader = "BGL" THEN idx_test ELSE [ i \in 1..Len(session_test) |-> session_test[i].id ]

\* Sizes of the returned collections.
TrainSize == IF loader = "BGL" THEN Len(session_train[1].templates) ELSE Len(session_train)
TestSize == IF loader = "BGL" THEN Len(session_test[1].templates) ELSE Len(session_test)

\* The ratios the caller asked for, train_ratio at its default when not passed.
AskedTrain ==
    IF args.train_ratio_given = None
    THEN RatioDen - args.test_ratio
    ELSE args.train_ratio_given[1]
AskedTest == args.test_ratio

InUnit(r) == 0 <= r /\ r <= RatioDen
ValidRatios == InUnit(AskedTrain) /\ InUnit(AskedTest) /\ AskedTrain + AskedTest <= RatioDen

\* floor(ratio * N)
Floor(num, n) == (num * n) \div RatioDen

Returned == PartitioningLoader /\ pc = "returned"

----------------------------------------------------------------------------
(* C1: without shuffle, downsampling (train_anomaly_ratio = 1) or          *)
(* filtering, a call with ratios in [0,1] summing to at most 1 returns     *)
(* floor(train_ratio * N) training items and floor(test_ratio * N) test    *)
(* items, also when floor(test_ratio * N) = 0.                             *)
C1_PartitionSizes ==
    ( /\ Returned
      /\ ValidRatios
      /\ ~args.random_partition
      /\ args.train_anomaly_ratio = RatioDen
      /\ ~args.filter_normal )
    => /\ TrainSize = Floor(AskedTrain, Items)
       /\ TestSize = Floor(AskedTest, Items)

(* C2: with ratios in [0,1] summing to at most 1, shuffled or not, no      *)
(* session id or row index is returned in both the training and the test   *)
(* collection.                                                             *)
C2_Disjoint ==
    ( Returned /\ ValidRatios ) => Range(TrainItems) \cap Range(TestItems) = { }

(* C3: a call whose ratios sum to more than 1 or lie outside [0,1] is      *)
(* rejected before any partitioning work: no shuffle or coin is drawn, no  *)
(* window is sliced, and no train/test pair is returned.                   *)
C3_RejectedBeforeWork ==
    ( PartitioningLoader /\ ~ValidRatios )
    => /\ rng = NoDraws
       /\ pc \notin { "downsample", "filter", "stats", "returned" }

(* C4: the anomaly percentage of an empty training or test collection      *)
(* raises no division-by-zero fault in any loader.                         *)
C4_NoDivisionByZero == err # "ZeroDivisionError"

----------------------------------------------------------------------------
\* The windows the split selects, as lists of items of ItemOrder.
TrainWindowItems == TrainWindow(ItemOrder, Lines(args.train_ratio[1], Len(ItemOrder)))
TestWindowItems == TestWindow(ItemOrder, Lines(args.test_ratio, Len(ItemOrder)))

\* Label and name of the item at 0-based position p of the input order.
ItemLabel(p) ==
    IF loader = "BGL"
    THEN (IF struct_log[p + 1].Label = "-" THEN 0 ELSE 1)
    ELSE (IF label_data[session_dict[p + 1].id] = "Anomaly" THEN 1 ELSE 0)
ItemName(p) == IF loader = "BGL" THEN p ELSE session_dict[p + 1].id

Names(ps) == [ i \in 1..Len(ps) |-> ItemName(ps[i]) ]

\* s without the elements outside keep, order kept.
Restrict(s, keep) == SelectSeq(s, LAMBDA x : x \in keep)

(* C5: after a call of load_BGL with filter_normal on, every label-0 row   *)
(* of the test output has a template of the final training rows, every     *)
(* label-1 row of the selected test window is in the test output, and the  *)
(* surviving rows keep the order of the window.                            *)
C5_UnseenFilter ==
    ( Returned /\ loader = "BGL" /\ args.filter_normal )
    => LET train == session_train[1]
           test == session_test[1]
       IN  /\ \A i \in 1..Len(test.templates) :
                  test.label[i] = 0 => test.templates[i] \in Range(train.templates)
           /\ \A p \in Range(TestWindowItems) :
                  ItemLabel(p) = 1 => p \in Range(idx_test)
           /\ idx_test = Restrict(TestWindowItems, Range(idx_test))
           /\ \A i \in 1..Len(idx_test) :
                  /\ test.templates[i] = struct_log[idx_test[i] + 1].EventTemplate
                  /\ test.label[i] = ItemLabel(idx_test[i])
           /\ Len(test.templates) = Len(idx_test)

\* A normal test row of an unseen template was dropped and an anomalous test
\* row of an unseen template was kept.
C5_Witness ==
    /\ Returned /\ loader = "BGL" /\ args.filter_normal
    /\ \E p \in Range(TestWindowItems) :
           ItemLabel(p) = 0 /\ p \notin Range(idx_test)
    /\ \E i \in 1..Len(idx_test) :
           /\ session_test[1].label[i] = 1
           /\ session_test[1].templates[i] \notin Range(session_train[1].templates)

(* C6: of the selected training window, every label-0 item is returned     *)
(* whatever train_anomaly_ratio and the coin draws are; with ratio 0 no    *)
(* label-1 item is returned, with ratio 1 every label-1 item is; the test  *)
(* window is returned whole (load_BGL: when filter_normal is off).         *)
C6_Downsampling ==
    Returned
    => /\ \A p \in Range(TrainWindowItems) :
              ItemLabel(p) = 0 => ItemName(p) \in Range(TrainItems)
       /\ Range(TrainItems) \subseteq Range(Names(TrainWindowItems))
       /\ args.train_anomaly_ratio = 0 =>
              \A p \in Range(TrainWindowItems) :
                  ItemName(p) \in Range(TrainItems) => ItemLabel(p) = 0
       /\ args.train_anomaly_ratio = RatioDen =>
              TrainItems = Names(TrainWindowItems)
       /\ ~(loader = "BGL" /\ args.filter_normal) =>
              TestItems = Names(TestWindowItems)

\* Under a ratio strictly between 0 and 1 one anomalous item of the training
\* window was kept and another dropped, next to a normal one.
C6_Witness ==
    /\ Returned
    /\ 0 < args.train_anomaly_ratio /\ args.train_anomaly_ratio < RatioDen
    /\ \E p, q, r \in Range(TrainWindowItems) :
           /\ ItemLabel(p) = 1 /\ ItemName(p) \in Range(TrainItems)
           /\ ItemLabel(q) = 1 /\ ItemName(q) \notin Range(TrainItems)
           /\ ItemLabel(r) = 0

----------------------------------------------------------------------------
\* The rows of struct_log the build loop has consumed.
Consumed == 1..row

Occurrences(s, x) == Cardinality({ i \in 1..Len(s) : s[i] = x })

DistinctIds == \A i, j \in 1..Len(session_dict) : i # j => session_dict[i].id # session_dict[j].id

\* Row r names block id k somewhere in its Content.
RowNames(r, k) == \E j \in 1..Len(struct_log[r].Content) : struct_log[r].Content[j] = k

(* C7: in load_HDFS, once a row is consumed its template has been appended *)
(* exactly once to the session of every distinct block id its Content      *)
(* names, however often the id occurs in it, and to no other session; a    *)
(* row naming no id is appended nowhere.                                   *)
C7_MultiId ==
    ( loader = "HDFS" /\ first_run = None )
    => /\ DistinctIds
       /\ \A i \in 1..Len(session_dict) :
              LET k == session_dict[i].id
              IN  /\ k.kind = "blk"
                  /\ \A t \in Templates :
                         Occurrences(session_dict[i].templates, t)
                             = Cardinality({ r \in Consumed :
                                   struct_log[r].EventTemplate = t /\ RowNames(r, k) })
                  /\ Range(session_dict[i].templates) \subseteq Templates
       /\ \A r \in Consumed :
              \A j \in 1..Len(struct_log[r].Content) :
                  struct_log[r].Content[j].kind = "blk"
                      => HasKey(session_dict, struct_log[r].Content[j])

\* A row naming no block and a row naming one block twice and another once
\* were consumed: two sessions of one template each.
C7_Witness ==
    /\ loader = "HDFS" /\ row = 2 /\ Len(struct_log) = 2
    /\ struct_log[1].Content = << Word >>
    /\ struct_log[2].Content = << Blk(-2), Blk(1), Blk(-2) >>
    /\ Len(session_dict) = 2
    /\ \A i \in 1..2 : session_dict[i].templates = << struct_log[2].EventTemplate >>

\* Timestamp ts falls in the bucket key: same minute, second :00 up to 30
\* and :30 above.
InBucket(ts, key) ==
    /\ ts.minute = key.minute
    /\ \/ ts.second <= 30 /\ key.second = 0
       \/ ts.second > 30 /\ key.second = 30

(* C8: in load_OpenStack every consumed row is in the session of its       *)
(* bucket (same minute, second :00 when s <= 30, :30 when s > 30), each    *)
(* bucket has one session, and a session holds the rows of its bucket only.*)
C8_TimeBucket ==
    ( loader = "OpenStack" /\ first_run = None )
    => /\ DistinctIds
       /\ \A i \in 1..Len(session_dict) :
              Len(session_dict[i].templates)
                  = Cardinality({ r \in Consumed :
                        InBucket(struct_log[r].DateTime, session_dict[i].id) })
       /\ \A r \in Consumed :
              \E i \in 1..Len(session_dict) :
                  InBucket(struct_log[r].DateTime, session_dict[i].id)

\* Rows at seconds 30 and 31 of one minute were consumed into two sessions,
\* :00 and :30.
C8_Witness ==
    /\ loader = "OpenStack" /\ row = 2
    /\ struct_log[1].DateTime = [ minute |-> 0, second |-> 30 ]
    /\ struct_log[2].DateTime = [ minute |-> 0, second |-> 31 ]
    /\ Len(session_dict) = 2
    /\ session_dict[1].id = [ minute |-> 0, second |-> 0 ]
    /\ session_dict[2].id = [ minute |-> 0, second |-> 30 ]

IdsOf(ss) == [ i \in 1..Len(ss) |-> ss[i].id ]

(* C9: when a loader returns twice for the same input and arguments under  *)
(* the same seed (same shuffle, same coin draws), the second run built the *)
(* session collection with the same ids in the same order and returns the  *)
(* same training and test id sets (row index sets for load_BGL).           *)
C9_Deterministic ==
    ( /\ PartitioningLoader /\ pc = "returned"
      /\ first_run # None /\ first_run[1].pc = "returned" )
    => /\ IdsOf(session_dict) = IdsOf(first_run[1].session_dict)
       /\ Range(idx_train) = Range(first_run[1].idx_train)
       /\ Range(idx_test) = Range(first_run[1].idx_test)
       /\ Range(IdsOf(session_train)) = Range(IdsOf(first_run[1].session_train))
       /\ Range(IdsOf(session_test)) = Range(IdsOf(first_run[1].session_test))

\* Number of windows of the k-th session and of the sessions before it.
Windows(k) == Len(session_dict[k].window_labels)
WindowsBefore(k) == SeqSum([ j \in 1..(k - 1) |-> Windows(j) ])
TotalWindows == WindowsBefore(Len(session_dict) + 1)

(* C10: the flat list of a log_dataset has one sample per window, in       *)
(* session enumeration order and then window order; the sample of window w *)
(* of the k-th session (k from 0, sessions without windows counted) holds  *)
(* k and that window's features, label and anomaly flag; __len__ is the    *)
(* number of windows and __getitem__(i) is the i-th sample of that order.  *)
C10_Flatten ==
    ( loader = "log_dataset" /\ pc = "ready" )
    => /\ Len(flatten_data_list) = TotalWindows
       /\ \A k \in 1..Len(session_dict) :
              \A w \in 1..Windows(k) :
                  flatten_data_list[WindowsBefore(k) + w]
                      = [ session_idx |-> k - 1,
                          features |-> session_dict[k].features[args.feature_type][w],
                          window_labels |-> session_dict[k].window_labels[w],
                          window_anomalies |-> session_dict[k].window_anomalies[w] ]
       /\ item.op = "len" => item.value = Some(TotalWindows)
       /\ ( item.op = "getitem" /\ 0 <= item.idx /\ item.idx < TotalWindows )
              => item.value = Some(flatten_data_list[item.idx + 1])

\* Sessions of 3 and 2 windows were flattened to session_idx 0,0,0,1,1 and
\* position 3 was read: the first window of the second session.
C10_Witness ==
    /\ loader = "log_dataset" /\ pc = "ready"
    /\ Len(session_dict) = 2 /\ Windows(1) = 3 /\ Windows(2) = 2
    /\ [ i \in 1..Len(flatten_data_list) |-> flatten_data_list[i].session_idx ]
           = << 0, 0, 0, 1, 1 >>
    /\ item.op = "getitem" /\ item.idx = 3
    /\ item.value # None
    /\ item.value[1].session_idx = 1
    /\ item.value[1].window_labels = session_dict[2].window_labels[1]

----------------------------------------------------------------------------
\* Positions of the built sessions whose id the label file has no row for.
Unlabelled == { i \in 1..Len(session_dict) : session_dict[i].id \notin DOMAIN label_data }

\* The label the label file gives id k: 1 for the token "Anomaly", 0 otherwise.
FileLabel(k) == IF label_data[k] = "Anomaly" THEN 1 ELSE 0

(* C11: in load_HDFS and load_OpenStack, once the label loop has run: if    *)
(* some built session id has no row in the label file the call has raised  *)
(* KeyError, no training or test collection exists and no session with a   *)
(* missing id carries a label; if every id has a row, every session's      *)
(* label is 1 when its token is "Anomaly" and 0 otherwise, and so are the  *)
(* labels of the sessions handed to the training and test collections.     *)
C11_LabelLookupFatal ==
    ( SessionLoader /\ first_run = None /\ pc # "build" )
    => /\ Unlabelled # { }
              => /\ pc = "raised" /\ err = "KeyError"
                 /\ session_train = << >> /\ session_test = << >>
                 /\ \A i \in Unlabelled : session_dict[i].label = None
       /\ Unlabelled = { }
              => /\ err # "KeyError"
                 /\ \A i \in 1..Len(session_dict) :
                        session_dict[i].label = Some(FileLabel(session_dict[i].id))
                 /\ \A i \in 1..Len(session_train) :
                        session_train[i].label = Some(FileLabel(session_train[i].id))
                 /\ \A i \in 1..Len(session_test) :
                        session_test[i].label = Some(FileLabel(session_test[i].id))

\* Two sessions were built, the label file has the first id as "Anomaly"
\* and lacks the second: the call raised with the first session labelled 1,
\* the second unlabelled and nothing partitioned.
C11_Witness ==
    /\ SessionLoader /\ pc = "raised" /\ err = "KeyError"
    /\ Len(session_dict) = 2
    /\ Unlabelled = { 2 }
    /\ session_dict[1].label = Some(1)
    /\ session_dict[2].label = None
    /\ session_train = << >> /\ session_test = << >>

\* Every id resolved and the call returned a labelled session of each kind.
C11_ResolvedWitness ==
    /\ SessionLoader /\ pc = "returned" /\ Unlabelled = { }
    /\ Len(session_train) = 1 /\ session_train[1].label = Some(1)
    /\ Len(session_test) = 1 /\ session_test[1].label = Some(0)

----------------------------------------------------------------------------
\* Consumed row r refers to session id k: it names the block (load_HDFS) or
\* its timestamp falls in the bucket (load_OpenStack).
Refers(r, k) ==
    IF loader = "HDFS" THEN RowNames(r, k) ELSE InBucket(struct_log[r].DateTime, k)

\* The consumed rows that refer to k, in arrival order, and the first of them.
RowsOf(k) == SelectSeq([ r \in 1..row |-> r ], LAMBDA r : Refers(r, k))
FirstRow(k) == RowsOf(k)[1]

\* The templates of the rows that refer to k, in arrival order, each as
\* Appended gives it.
Arrivals(k, Appended(_)) ==
    [ n \in 1..Len(RowsOf(k)) |-> Appended(struct_log[RowsOf(k)[n]].EventTemplate) ]

\* A template as written in the row, and with its "[" characters left out.
AsRecorded(t) == t
WithoutOpenBracket(t) ==
    IF loader = "OpenStack" THEN SelectSeq(t, LAMBDA ch : ch # "[") ELSE t

\* Ids stand in the order of the first row that refers to them, every
\* session holds the arrivals of its id, and a call that returns without
\* shuffling hands each session over with the templates and label it has in
\* the built collection.
OrderPreserved(Appended(_)) ==
    /\ DistinctIds
    /\ \A i \in 1..Len(session_dict) :
           /\ RowsOf(session_dict[i].id) # << >>
           /\ session_dict[i].templates = Arrivals(session_dict[i].id, Appended)
    /\ \A i, j \in 1..Len(session_dict) :
           i < j => FirstRow(session_dict[i].id) <= FirstRow(session_dict[j].id)
    /\ ( pc = "returned" /\ ~args.random_partition )
           => \A s \in Range(session_train) \cup Range(session_test) :
                  \E i \in 1..Len(session_dict) :
                      /\ session_dict[i].id = s.id
                      /\ s.templates = session_dict[i].templates
                      /\ s.templates = Arrivals(s.id, Appended)
                      /\ s.label = session_dict[i].label
                      /\ s.label # None

(* C12, as stated: in load_HDFS and load_OpenStack, after any number of    *)
(* consumed rows the session ids stand in first-seen order and every       *)
(* session holds the templates of the rows of its id, as the rows have     *)
(* them, in arrival order with repeats; a call that returns without        *)
(* shuffling places sessions in train or test with templates and label     *)
(* unchanged.                                                              *)
C12_OrderAsRecorded ==
    ( SessionLoader /\ first_run = None ) => OrderPreserved(AsRecorded)

(* C12, amended: the same, where load_OpenStack holds each template with   *)
(* its "[" characters removed and load_HDFS holds it as the row has it.    *)
C12_OrderPreserved ==
    ( SessionLoader /\ first_run = None ) => OrderPreserved(WithoutOpenBracket)

\* load_OpenStack returned without shuffling: the first row's template
\* "[a]" is in the training session as "a]", the second row's in the test
\* session, each under its own bucket and labelled.
C12_Witness ==
    /\ loader = "OpenStack" /\ pc = "returned" /\ ~args.random_partition
    /\ Len(struct_log) = 2
    /\ struct_log[1].EventTemplate = << "[", "a", "]" >>
    /\ Len(session_train) = 1 /\ Len(session_test) = 1
    /\ session_train[1].id = session_dict[1].id
    /\ session_train[1].templates = << << "a", "]" >> >>
    /\ session_test[1].id = session_dict[2].id
    /\ session_test[1].templates = << WithoutOpenBracket(struct_log[2].EventTemplate) >>

\* load_HDFS consumed two rows that both name the same two blocks: two
\* sessions, each holding both templates in arrival order, repeats kept.
C12_RepeatWitness ==
    /\ loader = "HDFS" /\ row = 2
    /\ Len(session_dict) = 2
    /\ struct_log[1].EventTemplate = struct_log[2].EventTemplate
    /\ \A i \in 1..2 :
           session_dict[i].templates
               = << struct_log[1].EventTemplate, struct_log[2].EventTemplate >>

====
